---- MODULE Spec2Model ----
(***************************************************************************)
(* Model of streamlit_app.py (Wateran): the data-to-sequence preprocessing *)
(* pipeline, the min-max scaler life cycle and the Train / Test /          *)
(* Cross-Validation / New-Prediction handlers of one Streamlit session.    *)
(*                                                                         *)
(* A DataFrame is [idx |-> row labels, col |-> [column name -> cells]].    *)
(* A cell is an integer or NaN.  Scaled values are exact rationals         *)
(* <<numerator, denominator>>, so the model has no rounding error: where   *)
(* the program is only right "within floating-point tolerance" the model   *)
(* is exactly right.                                                       *)
(***************************************************************************)
EXTENDS Integers, Sequences, FiniteSets, TLC

VARIABLES
    df,              \* st.session_state.df: the uploaded table, in file order
    date_col,        \* st.session_state.date_col ("None" when not selected)
    input_vars,      \* st.session_state.input_vars
    var_types,       \* st.session_state.var_types
    num_lags,        \* st.session_state.num_lags
    train_split,     \* the "Training Data %" slider, in percent
    feature_cols,    \* st.session_state.feature_cols
    scaler,          \* st.session_state.scaler: NoScaler or a fitted scaler
    model,           \* st.session_state.model: NoModel or a predictor
    X_train,         \* st.session_state.X_train: None or the stored sequences
    weights_file,    \* os.path.exists(MODEL_WEIGHTS_PATH)
    last,            \* what the last handler run did (observation record)
    args,            \* inputs of the function under test (function specs)
    ret              \* its result

sessVars == <<df, date_col, input_vars, var_types, num_lags, train_split,
              feature_cols, scaler, model, X_train, weights_file, last>>
fnVars == <<args, ret>>
vars == <<df, date_col, input_vars, var_types, num_lags, train_split,
          feature_cols, scaler, model, X_train, weights_file, last, args, ret>>

-----------------------------------------------------------------------------
(* Bounds of the model *)

\* Largest value of the "Number of Lags" input the model explores.
MaxLags == 3
\* Longest table the preprocess_data specification draws.
MaxRows == 5
\* Largest partition size the validation-split specification draws.
MaxSeq == 60

-----------------------------------------------------------------------------
(* Cells, columns, frames *)

\* numpy.nan: the missing cell that shift() and mask() introduce.
NaN == -1000000

Min2(a, b) == IF a < b THEN a ELSE b
Max2(a, b) == IF a > b THEN a ELSE b

\* The sums and selections below split their sequence in halves, so that
\* the tables of a hundred rows do not nest a hundred calls.
RECURSIVE SumSeq(_)
SumSeq(s) ==
    IF s = <<>> THEN 0
    ELSE IF Len(s) = 1 THEN s[1]
    ELSE SumSeq(SubSeq(s, 1, Len(s) \div 2))
         + SumSeq(SubSeq(s, Len(s) \div 2 + 1, Len(s)))

RECURSIVE MinSeq(_)
MinSeq(s) == IF Len(s) = 1 THEN s[1] ELSE Min2(Head(s), MinSeq(Tail(s)))

RECURSIVE MaxSeq_(_)
MaxSeq_(s) == IF Len(s) = 1 THEN s[1] ELSE Max2(Head(s), MaxSeq_(Tail(s)))

\* The elements of s at the positions a..b that are in keep, in order.
RECURSIVE TakeRange(_, _, _, _)
TakeRange(s, keep, a, b) ==
    IF a > b THEN <<>>
    ELSE IF a = b THEN (IF a \in keep THEN <<s[a]>> ELSE <<>>)
    ELSE TakeRange(s, keep, a, (a + b) \div 2)
         \o TakeRange(s, keep, (a + b) \div 2 + 1, b)

\* The elements of s at the positions in keep from i on, in order.
Take(s, keep, i) == TakeRange(s, keep, i, Len(s))

\* A cell that holds text, in a column pandas reads as object.
Text == -2000000
IsNumeric(c) == \A i \in 1..Len(c) : c[i] # Text

NotNaN(c) == Take(c, {i \in 1..Len(c) : c[i] # NaN}, 1)

NRows(d) == Len(d.idx)
Columns(d) == DOMAIN d.col

\* d[keep]: the rows at the positions in keep.
Rows(d, keep) ==
    [idx |-> Take(d.idx, keep, 1),
     col |-> [c \in Columns(d) |-> Take(d.col[c], keep, 1)]]

\* d[name] = cells: add or replace one column.
WithCol(d, name, cells) ==
    [idx |-> d.idx, col |-> (name :> cells) @@ d.col]

\* Series.fillna(value); fillna(NaN) changes nothing.
fillna(c, value) == [i \in 1..Len(c) |-> IF c[i] = NaN THEN value ELSE c[i]]

\* Series.median(): NaN cells skipped, NaN for an all-NaN column.  The
\* tables of this model have integral medians and means.
median(c) ==
    LET v == SortSeq(NotNaN(c), LAMBDA a, b : a < b)
        m == Len(v)
    IN  IF m = 0 THEN NaN
        ELSE IF m % 2 = 1 THEN v[(m + 1) \div 2]
        ELSE (v[m \div 2] + v[m \div 2 + 1]) \div 2

\* Series.mean(): NaN cells skipped.
mean(c) ==
    LET v == NotNaN(c)
    IN  IF Len(v) = 0 THEN NaN ELSE SumSeq(v) \div Len(v)

\* Series.fillna(method='ffill'): leading NaN cells stay.
RECURSIVE ffill(_)
ffill(c) ==
    IF Len(c) <= 1 THEN c
    ELSE LET f == ffill(SubSeq(c, 1, Len(c) - 1))
             x == c[Len(c)]
         IN  Append(f, IF x = NaN THEN f[Len(f)] ELSE x)

\* Series.fillna(method='bfill'): trailing NaN cells stay.
RECURSIVE bfill(_)
bfill(c) ==
    IF Len(c) <= 1 THEN c
    ELSE LET b == bfill(Tail(c))
         IN  <<IF Head(c) = NaN THEN Head(b) ELSE Head(c)>> \o b

\* Series.shift(lag): cell i takes the value lag rows earlier.
shift(c, lag) == [i \in 1..Len(c) |-> IF i > lag THEN c[i - lag] ELSE NaN]

\* A wrong variant of zscore_exceeds: the cells of a column with a zero
\* std count as infinitely far from the mean, and are all flagged.
zscore_exceeds_infinite(c, threshold2) ==
    [i \in 1..Len(c) |-> \A j \in 1..Len(c) : c[j] = c[i]]

\* abs(stats.zscore(c)) > threshold, per cell.  z = (x - mean) / std with
\* the population std; a NaN anywhere, or a zero std, makes every z NaN and
\* every comparison False.  With d_i = n*x_i - sum:  n*d_i^2 > t^2 * sum(d^2).
\* threshold2 is twice the slider value (the slider moves in steps of 0.5).
zscore_exceeds(c, threshold2) ==
    LET n == Len(c)
        s == SumSeq(c)
        d == [i \in 1..n |-> n * c[i] - s]
        ss == SumSeq([i \in 1..n |-> d[i] * d[i]])
    IN  [i \in 1..n |->
           IF (\E j \in 1..n : c[j] = NaN) \/ ss = 0 THEN FALSE
           ELSE 4 * n * d[i] * d[i] > threshold2 * threshold2 * ss]

\* Series.mask(cond): NaN where cond holds.
mask(c, cond) == [i \in 1..Len(c) |-> IF cond[i] THEN NaN ELSE c[i]]

\* f'{var}_Lag_{lag}'
LagName(var, lag) == var \o "_Lag_" \o ToString(lag)

-----------------------------------------------------------------------------
(* preprocess_data *)

AllVars == {"P", "T", "Q"}

\* max_value of the "Number of Lags" input.
MAX_NUM_LAGS == 10

\* "_Lag_" in col, for the column names of this model.
IsLagCol(c) == \E v \in AllVars, l \in 1..MAX_NUM_LAGS : c = LagName(v, l)

\* The handle_missing branch applied to one column.
fill_missing(c, handle_missing) ==
    CASE handle_missing = "median" -> fillna(c, median(c))
      [] handle_missing = "mean" -> fillna(c, mean(c))
      [] handle_missing = "forward" -> ffill(c)
      [] handle_missing = "backward" -> bfill(c)
      [] OTHER -> c

\* One pass of the outlier loop over one column.  stats.zscore raises on a
\* column of text and the loop's own except passes.
remove_outlier_cells(c, threshold2) ==
    IF ~IsNumeric(c) THEN c
    ELSE LET m == mask(c, zscore_exceeds(c, threshold2))
         IN  fillna(m, median(m))

\* The missing-value loop over the columns of vs, left to right.
RECURSIVE FillColumns(_, _, _)
FillColumns(d, vs, policy) ==
    IF vs = <<>> THEN d
    ELSE FillColumns(WithCol(d, Head(vs), fill_missing(d.col[Head(vs)], policy)),
                     Tail(vs), policy)

\* The outlier loop over the columns of vs, left to right.
RECURSIVE CleanColumns(_, _, _)
CleanColumns(d, vs, threshold2) ==
    IF vs = <<>> THEN d
    ELSE CleanColumns(WithCol(d, Head(vs),
                              remove_outlier_cells(d.col[Head(vs)], threshold2)),
                      Tail(vs), threshold2)

\* The lag columns of one variable, appended for lag = 1..num_lags.
RECURSIVE AddLags(_, _, _, _)
AddLags(d, var, lag, n) ==
    IF lag > n THEN d
    ELSE AddLags(WithCol(d, LagName(var, lag), shift(d.col[var], lag)),
                 var, lag + 1, n)

\* A wrong variant of LagNames, numbering the lags from 0.
LagNames_from_zero(var, n) == [lag \in 1..n |-> LagName(var, lag - 1)]

LagNames(var, n) == [lag \in 1..n |-> LagName(var, lag)]

\* The feature list and frame after the loop over input_vars.
RECURSIVE LagInputs(_, _, _, _)
LagInputs(d, vs, types, n) ==
    IF vs = <<>> THEN [df |-> d, feature_cols |-> <<>>]
    ELSE LET var == Head(vs)
             dyn == var \in DOMAIN types /\ types[var] = "Dynamic"
             d1 == IF dyn THEN AddLags(d, var, 1, n) ELSE d
             rest == LagInputs(d1, Tail(vs), types, n)
         IN  [df |-> rest.df,
              feature_cols |->
                  (IF dyn THEN LagNames(var, n) ELSE <<var>>) \o rest.feature_cols]

\* A wrong variant of dropna_any, keeping a row that has any cell of subset.
dropna_only_empty(d, subset) ==
    Rows(d, {i \in 1..NRows(d) : \E c \in subset : d.col[c][i] # NaN})

\* DataFrame.dropna(subset, how='any')
dropna_any(d, subset) ==
    Rows(d, {i \in 1..NRows(d) : \A c \in subset : d.col[c][i] # NaN})

\* DataFrame.fillna(0)
fillna_frame(d, value) ==
    [idx |-> d.idx, col |-> [c \in Columns(d) |-> fillna(d.col[c], value)]]

SeqRange(s) == {s[i] : i \in 1..Len(s)}
SelectIn(s, S) == Take(s, {i \in 1..Len(s) : s[i] \in S}, 1)

\* Observation: the rows of d that still miss a cell of a lag column.
PartialRows(d, lag_cols) ==
    Cardinality({i \in 1..NRows(d) : \E c \in lag_cols : d.col[c][i] = NaN})

\* A wrong variant of fallback_inputs: the lag names of the inputs.
fallback_inputs_lagged(d, in_vars) ==
    [i \in 1..Len(SelectIn(in_vars, Columns(d))) |->
        LagName(SelectIn(in_vars, Columns(d))[i], 1)]

\* input_vars as the except branch finds it: rebound, when a column of
\* input_vars + [output_var] is missing, to the inputs the table has.
fallback_inputs(d, in_vars) == SelectIn(in_vars, Columns(d))

\* Series.median() and Series.mean() raise TypeError on a column of text.
fill_raises(d, cols, policy) ==
    /\ policy \in {"median", "mean"}
    /\ \E c \in SeqRange(cols) : ~IsNumeric(d.col[c])

\* Returns the processed frame and the feature list; raised tells that the
\* except branch produced them, partial counts the rows that were kept with
\* an incomplete lag window and had it filled by the final fillna(0).
preprocess_data(d, in_vars, out_var, types, n_lags, dcol, handle_missing, remove_outliers, threshold2) ==
    LET ivars == SelectIn(in_vars, Columns(d))
    IN  IF out_var \notin Columns(d) \/ fill_raises(d, Append(ivars, out_var), handle_missing)
        THEN \* ValueError or TypeError, caught: return df, input_vars
             [df |-> d, feature_cols |-> fallback_inputs(d, in_vars),
              raised |-> TRUE, partial |-> 0]
        ELSE
        LET cols == Append(ivars, out_var)
            filled == FillColumns(d, cols, handle_missing)
            clean == IF remove_outliers
                     THEN CleanColumns(filled, cols, threshold2)
                     ELSE filled
            lagged == LagInputs(clean, ivars, types, n_lags)
            withOut == AddLags(lagged.df, out_var, 1, n_lags)
            fcols == lagged.feature_cols \o LagNames(out_var, n_lags)
            lag_cols == {c \in SeqRange(fcols) : IsLagCol(c)}
            dropped == IF lag_cols # {} THEN dropna_any(withOut, lag_cols)
                       ELSE withOut
        IN  [df |-> fillna_frame(dropped, 0), feature_cols |-> fcols,
             raised |-> FALSE, partial |-> PartialRows(dropped, lag_cols)]

-----------------------------------------------------------------------------
(* MinMaxScaler.  Rationals are <<numerator, denominator>>, denominator > 0 *)

RatEq(a, b) == a[1] * b[2] = b[1] * a[2]
RatOfInt(x) == <<x, 1>>

NoScaler == [fit |-> FALSE]

\* MinMaxScaler().fit(d[cols]): per-column min and max of the rows of d.
MinMaxScaler_fit(d, cols) ==
    [fit |-> TRUE,
     cols |-> cols,
     data_min |-> [j \in 1..Len(cols) |-> MinSeq(d.col[cols[j]])],
     data_max |-> [j \in 1..Len(cols) |-> MaxSeq_(d.col[cols[j]])],
     n_samples_seen |-> NRows(d)]

\* data_range with _handle_zeros_in_scale: a constant column scales by 1.
data_range(s, j) ==
    IF s.data_max[j] = s.data_min[j] THEN 1 ELSE s.data_max[j] - s.data_min[j]

\* X * scale_ + min_ for one cell of column j.
scale_cell(s, j, x) == <<x - s.data_min[j], data_range(s, j)>>

\* (X - min_) / scale_ for one cell of column j.
unscale_cell(s, j, r) == <<r[1] * data_range(s, j) + s.data_min[j] * r[2], r[2]>>

\* scaler.transform(d[cols]): columns are scaled by position.
transform(s, d, cols) ==
    [labels |-> cols,
     val |-> [j \in 1..Len(cols) |->
                [i \in 1..NRows(d) |-> scale_cell(s, j, d.col[cols[j]][i])]]]

\* scaler.inverse_transform(M): columns are de-scaled by position.
inverse_transform(s, M) ==
    [labels |-> M.labels,
     val |-> [j \in 1..Len(M.labels) |->
                [i \in 1..Len(M.val[j]) |-> unscale_cell(s, j, M.val[j][i])]]]

\* scaled[:, :-1] and scaled[:, -1]
features_of(M) ==
    [labels |-> SubSeq(M.labels, 1, Len(M.labels) - 1),
     val |-> SubSeq(M.val, 1, Len(M.val) - 1)]
target_of(M) ==
    [labels |-> <<M.labels[Len(M.labels)]>>, val |-> <<M.val[Len(M.val)]>>]

\* np.hstack([A, B]) of two rank-2 blocks with the same number of rows.
hstack(A, B) == [labels |-> A.labels \o B.labels, val |-> A.val \o B.val]

\* M[:, 0]
column0(M) == M.val[1]

-----------------------------------------------------------------------------
(* The session before any interaction (the session-state initialisation) *)

DEFAULT_NUM_LAGS == 3
DEFAULT_TRAIN_SPLIT == 80

\* st.session_state.df = None
NoFrame == [idx |-> <<>>, col |-> <<>>]
NoModel == [built |-> FALSE]
NoTypes == [v \in {} |-> "Dynamic"]

\* st.session_state.X_train = None
NoSequences == [set |-> FALSE]

\* st.session_state.metrics, train_results_df and test_results_df = None
NoEvaluation == [made |-> FALSE]

\* No run of the feature-engineering step to observe.
NoEngineering == [reached |-> FALSE]

\* What a handler run leaves to observe.
\*   op         the handler, or "config" for a widget change
\*   fault      "none", or the place where the run stopped or failed
\*   xformCols  the column list of the scaler.transform call the run made
\*   invCols    the column labels of the matrix given to inverse_transform
\*   actual     the de-scaled "actual" values the run reported
\*   orig       the output-column values of the rows behind them
\*   partial    rows with an incomplete lag window that were scaled
\*   rowDates   the Date cells of the processed rows, in partition order
\*   trainSize  the number of those rows in the training partition
\*   eval       what the run fed to the metric functions and put in its
\*              results tables (Test only)
\*   fe         the columns and the number of rows of the table that left
\*              the feature-engineering step, once a run got that far
Observed(op, fault, xformCols, invCols, actual, orig, partial, rowDates, trainSize) ==
    [op |-> op, fault |-> fault, xformCols |-> xformCols, invCols |-> invCols,
     actual |-> actual, orig |-> orig, partial |-> partial,
     rowDates |-> rowDates, trainSize |-> trainSize, eval |-> NoEvaluation,
     fe |-> NoEngineering]
Quiet(op, fault) == Observed(op, fault, <<>>, <<>>, <<>>, <<>>, 0, <<>>, 0)

NoArgs == [fn |-> "none"]
NoRet == [done |-> FALSE]

SessionInit ==
    /\ df = NoFrame
    /\ date_col = "None"
    /\ input_vars = <<>>
    /\ var_types = NoTypes
    /\ num_lags = DEFAULT_NUM_LAGS
    /\ train_split = DEFAULT_TRAIN_SPLIT
    /\ feature_cols = <<>>
    /\ scaler = NoScaler
    /\ model = NoModel
    /\ X_train = NoSequences
    /\ last = Quiet("none", "none")

-----------------------------------------------------------------------------
(* preprocess_data on drawn tables *)

\* Cell values are multiples of Unit, so that the medians and means of up to
\* six cells that fill_missing and remove_outlier_cells compute are integers.
Unit == 2 * 60

PValue(i) == Unit * (1 + ((i * i) % 4))
QValue(i) == Unit * i
TValue == Unit * 2

\* A table of n rows in date order; nanPos > 0 blanks one cell of nanCol.
DrawnTable(n, nanCol, nanPos) ==
    LET cell(c, i, x) == IF c = nanCol /\ i = nanPos THEN NaN ELSE x
    IN  [idx |-> [i \in 1..n |-> i],
         col |-> [c \in {"Date", "P", "T", "Q"} |->
                    [i \in 1..n |->
                       CASE c = "Date" -> i
                         [] c = "P" -> cell(c, i, PValue(i))
                         [] c = "T" -> TValue
                         [] c = "Q" -> cell(c, i, QValue(i))]]]

InputChoices == {<<"P">>, <<"T">>, <<"P", "T">>, <<"T", "P">>}
TypeChoices == [{"P", "T"} -> {"Dynamic", "Static"}]
MissingChoices == {"median", "mean", "forward", "backward"}
\* Outlier removal off, on at the slider minimum 1.0, on at the default 3.0.
OutlierChoices == {<<FALSE, 6>>, <<TRUE, 2>>, <<TRUE, 6>>}

PreTables ==
    UNION {{DrawnTable(n, c, k) : c \in {"P", "Q"}, k \in 0..n} : n \in 0..MaxRows}

PreArgs ==
    {[fn |-> "preprocess_data", df |-> d, input_vars |-> iv,
      output_var |-> "Q", var_types |-> ty, num_lags |-> l,
      handle_missing |-> hm, remove_outliers |-> o[1], outlier_threshold |-> o[2]] :
        d \in PreTables, iv \in InputChoices, ty \in TypeChoices,
        l \in 1..MaxLags, hm \in MissingChoices, o \in OutlierChoices}

InitPre ==
    /\ SessionInit
    /\ weights_file = FALSE
    /\ args \in PreArgs
    /\ ret = NoRet

CallPreprocess ==
    /\ args.fn = "preprocess_data"
    /\ ~ret.done
    /\ ret' = [done |-> TRUE,
               out |-> preprocess_data(args.df, args.input_vars, args.output_var,
                                       args.var_types, args.num_lags, "Date",
                                       args.handle_missing, args.remove_outliers,
                                       args.outlier_threshold)]
    /\ UNCHANGED <<args, sessVars>>

NextPre == CallPreprocess

\* Calls that do not meet what the function expects: a table without the
\* output column or without an input column, a column of text, a
\* handle_missing value that names no policy.
WithoutCols(d, S) == [idx |-> d.idx, col |-> [c \in Columns(d) \ S |-> d.col[c]]]
WithText(d, c, pos) == WithCol(d, c, [d.col[c] EXCEPT ![pos] = Text])

OddTables ==
    {WithoutCols(DrawnTable(MaxRows, "P", 0), S) : S \in SUBSET {"P", "Q"}}
    \cup {WithText(DrawnTable(MaxRows, n, 1), c, 2) : c \in {"P", "Q"}, n \in {"P", "Q"}}

OddArgs ==
    {[fn |-> "preprocess_data", df |-> d, input_vars |-> iv,
      output_var |-> "Q", var_types |-> ty, num_lags |-> l,
      handle_missing |-> hm, remove_outliers |-> o[1], outlier_threshold |-> o[2]] :
        d \in OddTables, iv \in InputChoices, ty \in TypeChoices,
        l \in 1..MaxLags, hm \in MissingChoices \cup {"drop"}, o \in OutlierChoices}

InitPreOdd ==
    /\ SessionInit
    /\ weights_file = FALSE
    /\ args \in OddArgs
    /\ ret = NoRet

SpecPreOdd == InitPreOdd /\ [][NextPre]_vars

SpecPre == InitPre /\ [][NextPre]_vars

-----------------------------------------------------------------------------
(* Python slices and the validation split *)

\* A slice bound i on a sequence of length n: negative bounds count from the
\* end, and every bound is clamped into 0..n.  Note that -0 is 0.
SliceIndex(i, n) == IF i < 0 THEN Max2(i + n, 0) ELSE Min2(i, n)

\* s[a:] and s[:b]
SliceFrom(s, a) == SubSeq(s, SliceIndex(a, Len(s)) + 1, Len(s))
SliceTo(s, b) == SubSeq(s, 1, SliceIndex(b, Len(s)))

\* val_size = int(len(X) * 0.2); X_val = X[-val_size:]; X_train = X[:-val_size]
\* int(n * 0.2) is n \div 5 for every n a table can have.
validation_split(X) ==
    LET val_size == Len(X) \div 5
    IN  [val_size |-> val_size,
         X_val |-> SliceFrom(X, 0 - val_size),
         X_train |-> SliceTo(X, 0 - val_size)]

\* max_samples of the Optimize handler.
max_samples == 1000

\* X[::step]
EveryNth(s, step) ==
    [i \in 1..((Len(s) + step - 1) \div step) |-> s[(i - 1) * step + 1]]

\* The Optimize handler's subset of the stored sequences.
optimize_subset(X) ==
    IF Len(X) > max_samples THEN EveryNth(X, Len(X) \div max_samples) ELSE X

\* ... and its split of that subset.
optimize_split(X) == validation_split(optimize_subset(X))

-----------------------------------------------------------------------------
(* The session: uploaded tables and widget choices *)

\* The columns of an uploaded file, in file order.
FileColumns == <<"Date", "Q", "P", "T">>

\* st.session_state.output_var: the first numeric column that is not a date.
output_var == "Q"
\* The preprocessing widgets stay at their defaults in the session model.
handle_missing == "median"
remove_outliers == TRUE
\* Twice the default outlier_threshold 3.0.
outlier_threshold == 6

\* An uploaded table whose rows carry the dates of `order`, in file order.
TableInOrder(order) ==
    [idx |-> [i \in 1..Len(order) |-> i],
     col |-> [c \in {"Date", "P", "T", "Q"} |->
                [i \in 1..Len(order) |->
                   CASE c = "Date" -> order[i]
                     [] c = "P" -> PValue(order[i])
                     [] c = "T" -> TValue
                     [] c = "Q" -> QValue(order[i])]]]

\* The same table with every other day dry: P is 0 on the even dates.
DryTable(order) ==
    [TableInOrder(order) EXCEPT
        !.col["P"] = [i \in 1..Len(order) |-> PValue(order[i]) - Unit]]

\* A file already in date order, one that is not, a file too short to
\* leave a training row after lagging, and a file with dry days.
SessionTables ==
    {TableInOrder(<<1, 2, 3, 4, 5, 6, 7, 8>>),
     TableInOrder(<<3, 1, 2, 5, 4, 8, 6, 7>>),
     TableInOrder(<<1, 2, 3>>),
     DryTable(<<1, 2, 3, 4, 5, 6, 7, 8>>)}

\* New-data files: one row, and four rows.
NewTables == {TableInOrder(<<1>>), TableInOrder(<<1, 2, 3, 4>>)}

VarTypes == {"Dynamic", "Static"}

\* DataFrame.sort_values(c): rows by ascending c, labels kept.
sort_values(d, c) ==
    LET perm == SortSeq([i \in 1..NRows(d) |-> i],
                        LAMBDA a, b : d.col[c][a] < d.col[c][b])
    IN  [idx |-> [i \in 1..NRows(d) |-> d.idx[perm[i]]],
         col |-> [k \in Columns(d) |-> [i \in 1..NRows(d) |-> d.col[k][perm[i]]]]]

\* The script's local df after the date selection: sorted when a date column
\* is selected.  The handlers do not read it: they copy st.session_state.df.
local_df == IF date_col # "None" THEN sort_values(df, date_col) ELSE df

\* df = st.session_state.df.copy(), the frame Train, Test and CV preprocess.
handler_df == df

\* The widget choices of the session model.
SessionInputs == {<<"P">>, <<"P", "T">>}
SessionLags == (MaxLags - 1)..MaxLags
DateChoices == {"None", "Date"}
\* The ends of the "Training Data %" slider's range below its default.
SplitChoices == {50, DEFAULT_TRAIN_SPLIT}
\* The variables whose type selectbox the session model moves.
TypedVars == {"T"}

\* The preprocess_data call of the Train, Test and CV handlers.
Pipeline ==
    preprocess_data(handler_df, input_vars, output_var, var_types, num_lags,
                    date_col, handle_missing, remove_outliers, outlier_threshold)

\* A wrong variant of TrainSize, taking every processed row for training.
TrainSize_every_row(d) == NRows(d)

\* int(len(processed_df) * train_split), exact for 50 and 80 percent.
TrainSize(d) == (NRows(d) * train_split) \div 100

\* The ways scaler.transform(d[cols]) can end.  A column list of the fitted
\* width whose names differ from those seen in fit is rejected by
\* scikit-learn 1.2 and later and only warned about by older releases, so
\* both outcomes are possible.
TransformFaults(s, d, cols) ==
    IF ~s.fit THEN {"AttributeError_scaler_none"}
    ELSE IF Len(cols) # Len(s.cols) THEN {"ValueError_features"}
    ELSE LET passed == IF NRows(d) = 0 THEN "ValueError_empty" ELSE "none"
         IN  IF cols # s.cols THEN {"ValueError_features", passed} ELSE {passed}

\* build_advanced_model for an input of n features.
BuiltModel(n) == [built |-> TRUE, n_features |-> n]

\* st.session_state.enable_feature_engineering: the checkbox stays at its
\* default in the session model.
enable_feature_engineering == TRUE

\* The columns engineer_features derives from the date column.
calendar_columns == {"hour", "day", "month", "day_of_week", "is_weekend"}

\* One calendar column of a date column whose cells are day numbers of one
\* month, day 1 being a Monday at midnight.
calendar_cells(dates, name) ==
    [i \in 1..Len(dates) |->
        CASE name = "hour" -> 0
          [] name = "day" -> dates[i]
          [] name = "month" -> 1
          [] name = "day_of_week" -> (dates[i] - 1) % 7
          [] name = "is_weekend" -> IF (dates[i] - 1) % 7 \in {5, 6} THEN 1 ELSE 0]

\* The function engineer_features.  Its rolling and interaction columns
\* are left out: no handler reads a column outside feature_cols and the
\* output variable.
engineer_features(d, fcols, out_var, dcol) ==
    IF NRows(d) = 0 \/ fcols = <<>> \/ out_var \notin Columns(d) THEN d
    ELSE IF dcol = "None" \/ dcol \notin Columns(d) THEN d
    ELSE [idx |-> d.idx,
          col |-> [c \in Columns(d) \cup calendar_columns |->
                     IF c \in calendar_columns
                     THEN calendar_cells(d.col[dcol], c) ELSE d.col[c]]]

\* Whether the script's name engineer_features is still bound to the
\* function when a handler runs.  A run that has an uploaded file rebinds the
\* name to the value of the "Enable Feature Engineering" checkbox before it
\* comes to any handler.
engineer_features_bound_to_function == df = NoFrame

\* The feature-engineering step of Train, Test and CV.  Calling the checkbox
\* value raises TypeError, and the handler's except passes.
feature_engineering_step(d, fcols) ==
    IF enable_feature_engineering /\ engineer_features_bound_to_function
    THEN engineer_features(d, fcols, output_var, date_col)
    ELSE d

\* The observation of a run whose feature-engineering step left `processed`.
engineered(obs, processed) ==
    [obs EXCEPT !.fe = [reached |-> TRUE, columns |-> Columns(processed),
                        rows |-> NRows(processed)]]

-----------------------------------------------------------------------------
(* The session: one action per script run *)

Uploaded == df # NoFrame

\* A file is uploaded: the script stores it and the widgets take their
\* defaults (no date column, the first remaining numeric column as input).
Upload(t) ==
    /\ ~Uploaded
    /\ df' = t
    /\ date_col' = "None"
    /\ input_vars' = <<"P">>
    /\ var_types' = [v \in {"P"} |-> "Dynamic"]
    /\ last' = Quiet("Upload", "none")
    /\ UNCHANGED <<num_lags, train_split, feature_cols, scaler, model, X_train,
                   weights_file, fnVars>>

\* The date selectbox: the local df is converted and sorted, the session
\* frame keeps the file order.
SelectDateCol(c) ==
    /\ Uploaded
    /\ c # date_col
    /\ date_col' = c
    /\ last' = Quiet("config", "none")
    /\ UNCHANGED <<df, input_vars, var_types, num_lags, train_split, feature_cols,
                   scaler, model, X_train, weights_file, fnVars>>

SetNumLags(n) ==
    /\ n # num_lags
    /\ num_lags' = n
    /\ last' = Quiet("config", "none")
    /\ UNCHANGED <<df, date_col, input_vars, var_types, train_split, feature_cols,
                   scaler, model, X_train, weights_file, fnVars>>

\* The input multiselect; a variable new to the selection gets a fresh type
\* selectbox, which shows "Dynamic".
SetInputVars(iv) ==
    /\ Uploaded
    /\ iv # input_vars
    /\ input_vars' = iv
    /\ var_types' = [v \in SeqRange(iv) |->
                       IF v \in DOMAIN var_types THEN var_types[v] ELSE "Dynamic"]
    /\ last' = Quiet("config", "none")
    /\ UNCHANGED <<df, date_col, num_lags, train_split, feature_cols, scaler,
                   model, X_train, weights_file, fnVars>>

SetVarType(v, t) ==
    /\ Uploaded
    /\ v \in DOMAIN var_types
    /\ var_types[v] # t
    /\ var_types' = [var_types EXCEPT ![v] = t]
    /\ last' = Quiet("config", "none")
    /\ UNCHANGED <<df, date_col, input_vars, num_lags, train_split, feature_cols,
                   scaler, model, X_train, weights_file, fnVars>>

SetTrainSplit(p) ==
    /\ p # train_split
    /\ train_split' = p
    /\ last' = Quiet("config", "none")
    /\ UNCHANGED <<df, date_col, input_vars, var_types, num_lags, feature_cols,
                   scaler, model, X_train, weights_file, fnVars>>

\* The rows of d from position a to position b.
RowRange(d, a, b) == Rows(d, a..b)

\* How model.fit and save_weights can end: the run completes and saves the
\* weights; it fails after the checkpoint callback wrote the weights file;
\* it fails before any weights were written.
TrainingOutcomes == {"none", "training_failed_after_checkpoint", "training_failed"}

\* The Train Model handler.
Train ==
    /\ IF ~Uploaded
       THEN \* st.session_state.df is None: df.copy() raises
            /\ last' = Quiet("Train", "AttributeError_df_none")
            /\ UNCHANGED <<feature_cols, scaler, model, X_train, weights_file>>
       ELSE
       \E pp \in {Pipeline} :
       \E processed \in {feature_engineering_step(pp.df, pp.feature_cols)},
          cols \in {Append(pp.feature_cols, output_var)} :
       \E train_size \in {TrainSize(processed)} :
       \E train_df \in {RowRange(processed, 1, train_size)} :
       \E vs \in {validation_split(train_df.idx)} :
           /\ feature_cols' = pp.feature_cols
           /\ IF train_size = 0
              THEN \* fit_transform on no rows raises; nothing else is stored
                   /\ last' = engineered(Quiet("Train", "ValueError_empty"),
                                         processed)
                   /\ UNCHANGED <<scaler, model, X_train, weights_file>>
              ELSE /\ scaler' = MinMaxScaler_fit(train_df, cols)
                   /\ X_train' = [set |-> TRUE, rows |-> vs.X_train]
                   /\ model' = BuiltModel(Len(pp.feature_cols))
                   /\ \E outcome \in TrainingOutcomes :
                        /\ weights_file' = (outcome # "training_failed" \/ weights_file)
                        /\ last' = engineered(
                                      Observed("Train", outcome, cols, <<>>, <<>>,
                                               <<>>, pp.partial,
                                               processed.col["Date"], train_size),
                                      processed)
    /\ UNCHANGED <<df, date_col, input_vars, var_types, num_lags, train_split, fnVars>>

\* The de-scaled "actual" values of one partition, as the Test handler
\* computes them: inverse_transform(hstack([y, X]))[:, 0].
reported_actual(s, part, cols) ==
    LET scaled == transform(s, part, cols)
        stacked == hstack(target_of(scaled), features_of(scaled))
    IN  [labels |-> stacked.labels,
         values |-> column0(inverse_transform(s, stacked))]

\* st.session_state.selected_metrics at the default of its multiselect.
all_metrics == <<"RMSE", "MAE", "R2", "NSE", "KGE", "MAPE">>
selected_metrics == all_metrics

\* What predict_with_uncertainty gives the Test handler: scaled means that
\* start below the fitted range and rise, scaled means inside and above the
\* range, or the IndexError of a one-output predictor on the direct path.
PredictorOutputs ==
    {[raised |-> "none", base |-> -3],
     [raised |-> "none", base |-> 1],
     [raised |-> "IndexError", base |-> 0]}

\* y_pred_mean and y_pred_std for n sequences.
predicted_mean(out, n) == [i \in 1..n |-> <<out.base + 2 * (i - 1), 2>>]
predicted_std(out, n) == [i \in 1..n |-> <<1, 10>>]

\* Wrong variants of clip: one that clips nothing, one that drops the
\* negative entries.
clip_nothing(y) == y
clip_dropping(y) == SelectSeq(y, LAMBDA r : r[1] >= 0)

\* np.clip(y, 0, None)
clip(y) == [i \in 1..Len(y) |-> IF y[i][1] < 0 THEN <<0, 1>> ELSE y[i]]

\* The de-scaled predictions of one partition, before clipping:
\* inverse_transform(hstack([y_pred_mean[:n], X[:n, 0, :]]))[:, 0] with
\* n = min(len(y_pred_mean), len(X)).
reported_predicted(s, part, cols, mean_pred) ==
    LET scaled == features_of(transform(s, part, cols))
        n == Min2(Len(mean_pred), NRows(part))
        stacked == hstack([labels |-> <<output_var>>,
                           val |-> <<SubSeq(mean_pred, 1, n)>>],
                          [labels |-> scaled.labels,
                           val |-> [j \in 1..Len(scaled.val) |->
                                      SubSeq(scaled.val[j], 1, n)]])
    IN  column0(inverse_transform(s, stacked))

\* One split of the Test handler after prediction: the arrays every selected
\* metric function is called on, and the columns of the results table.
evaluate_split(actual, raw, std_pred, dates) ==
    LET predicted == clip(raw)
        split_dates == SubSeq(dates, 1, Min2(Len(dates), Len(actual)))
        n == Min2(Min2(Len(split_dates), Len(actual)),
                  Min2(Len(predicted), Len(std_pred)))
    IN  [raw |-> raw,
         fed |-> [actual |-> actual, predicted |-> predicted],
         arrays |-> <<Len(split_dates), Len(actual), Len(predicted), Len(std_pred)>>,
         table |-> [Date |-> SubSeq(split_dates, 1, n),
                    Actual |-> SubSeq(actual, 1, n),
                    Predicted |-> SubSeq(predicted, 1, n),
                    Uncertainty |-> SubSeq(std_pred, 1, n)]]

\* dates = processed_df[date_col] if date_col else pd.RangeIndex(len(processed_df))
result_dates(processed) ==
    IF date_col # "None" THEN processed.col[date_col]
    ELSE [i \in 1..NRows(processed) |-> i - 1]

\* The Test Model handler.
Test ==
    /\ IF ~weights_file
       THEN \* "Train the model first!" and st.stop()
            /\ last' = Quiet("Test", "gate")
            /\ UNCHANGED <<feature_cols, model>>
       ELSE IF ~Uploaded
       THEN \* st.session_state.df is None: df.copy() raises
            /\ last' = Quiet("Test", "AttributeError_df_none")
            /\ UNCHANGED <<feature_cols, model>>
       ELSE
       \E pp \in {Pipeline} :
       \E processed \in {feature_engineering_step(pp.df, pp.feature_cols)},
          cols \in {Append(pp.feature_cols, output_var)} :
       \E train_size \in {TrainSize(processed)} :
       \E train_df \in {RowRange(processed, 1, train_size)},
          test_df \in {RowRange(processed, train_size + 1, NRows(processed))} :
       LET tr == reported_actual(scaler, train_df, cols)
           te == reported_actual(scaler, test_df, cols)
       IN  /\ feature_cols' = pp.feature_cols
           /\ \E fault \in TransformFaults(scaler, train_df, cols) :
                IF fault # "none"
                THEN /\ last' = engineered(
                                   Observed("Test", fault, cols, <<>>, <<>>, <<>>,
                                            0, processed.col["Date"], train_size),
                                   processed)
                     /\ UNCHANGED model
                ELSE /\ model' = IF model.built THEN model
                                 ELSE BuiltModel(Len(pp.feature_cols))
                     /\ \E out \in PredictorOutputs :
                        IF out.raised # "none"
                        THEN last' = engineered(
                                   Observed("Test", "IndexError_predict", cols,
                                            <<>>, <<>>, <<>>, pp.partial,
                                            processed.col["Date"], train_size),
                                   processed)
                        ELSE
                        \E dates \in {result_dates(processed)},
                           ntr \in {NRows(train_df)}, nte \in {NRows(test_df)} :
                        \E trainEval \in {evaluate_split(tr.values,
                                reported_predicted(scaler, train_df, cols,
                                                   predicted_mean(out, ntr)),
                                predicted_std(out, ntr),
                                SubSeq(dates, 1, train_size))},
                           testEval \in {evaluate_split(te.values,
                                reported_predicted(scaler, test_df, cols,
                                                   predicted_mean(out, nte)),
                                predicted_std(out, nte),
                                SubSeq(dates, train_size + 1, Len(dates)))} :
                          last' = [Observed("Test", "none", cols, tr.labels,
                                            tr.values \o te.values,
                                            processed.col[output_var], pp.partial,
                                            processed.col["Date"], train_size)
                                   EXCEPT !.eval = [made |-> TRUE,
                                                    metrics |-> selected_metrics,
                                                    Training |-> trainEval,
                                                    Testing |-> testEval],
                                          !.fe = [reached |-> TRUE,
                                                  columns |-> Columns(processed),
                                                  rows |-> NRows(processed)]]
    /\ UNCHANGED <<df, date_col, input_vars, var_types, num_lags, train_split,
                   scaler, X_train, weights_file, fnVars>>

\* TimeSeriesSplit(n_splits=5)
n_splits == 5

\* The Cross-Validation section.  It stops at the scaler, at the fold
\* splitter, or in the first fold at np.hstack, which is given the rank-1
\* mean of predict_with_uncertainty beside a rank-2 block.
CrossValidate ==
    /\ feature_cols # <<>>
    /\ \E pp \in {Pipeline} :
       \E processed \in {feature_engineering_step(pp.df, pp.feature_cols)},
          cols \in {Append(pp.feature_cols, output_var)} :
           \E fault \in TransformFaults(scaler, processed, cols) :
             last' = engineered(Observed("CV",
                              IF fault # "none" THEN fault
                              ELSE IF NRows(processed) < n_splits + 1
                              THEN "ValueError_too_few_rows"
                              ELSE "ValueError_hstack",
                              cols, <<>>, <<>>, <<>>,
                              IF fault = "none" THEN pp.partial ELSE 0,
                              processed.col["Date"], 0), processed)
    /\ UNCHANGED <<df, date_col, input_vars, var_types, num_lags, train_split,
                   feature_cols, scaler, model, X_train, weights_file, fnVars>>

\* The keys every script run puts in st.session_state before the layout,
\* with the value None unless they are there already (those the handlers of
\* this model read).
session_state_keys ==
    {"metrics", "scaler", "selected_metrics", "X_train", "y_train", "X_test",
     "y_test", "model", "num_samples"}

\* The guard of the Optimize Hyperparameters handler.
train_first == ~({"X_train", "y_train"} \subseteq session_state_keys)

\* The Optimize Hyperparameters handler: the keys "X_train" and "y_train"
\* are always in the session state, so the guard passes; len(None) raises
\* inside the try.  The trial loop is taken step by step further below.
Optimize ==
    /\ last' = Quiet("Optimize",
                     IF train_first THEN "train_first"
                     ELSE IF X_train.set THEN "none" ELSE "TypeError_caught")
    /\ UNCHANGED <<df, date_col, input_vars, var_types, num_lags, train_split,
                   feature_cols, scaler, model, X_train, weights_file, fnVars>>

\* DataFrame.dropna(subset, how='all')
dropna_all(d, subset) ==
    Rows(d, {i \in 1..NRows(d) : \E c \in subset : d.col[c][i] # NaN})

\* The Predict button of the New Predictions section for one uploaded file
\* t, with date selection dc and type choices nvt for its input variables.
Predict(t, dc, nvt) ==
    /\ weights_file
    /\ \E new_df \in {IF dc # "None" THEN sort_values(t, dc) ELSE t},
          available \in {SelectIn(FileColumns,
                                  (SeqRange(input_vars) \cap Columns(t)) \ {dc})} :
       /\ DOMAIN nvt = SeqRange(available)
       /\ IF available = <<>>
          THEN /\ last' = Quiet("Predict", "no_input_variables")
               /\ UNCHANGED model
          ELSE IF NRows(new_df) < (IF \E v \in SeqRange(available) : nvt[v] = "Dynamic"
                                  THEN num_lags + 1 ELSE 1)
          THEN /\ last' = Quiet("Predict", "insufficient_rows")
               /\ UNCHANGED model
          ELSE
          \E lagged \in {LagInputs(new_df, available, nvt, num_lags)} :
          \E withOut \in {AddLags(lagged.df, output_var, 1, num_lags)},
             feature_cols_new \in {lagged.feature_cols \o LagNames(output_var, num_lags)} :
          \E lag_cols \in {{c \in SeqRange(feature_cols_new) : IsLagCol(c)}} :
          \E kept \in {dropna_all(withOut, lag_cols)},
             cols \in {Append(feature_cols, output_var)},
             copied \in {SeqRange(feature_cols_new) \cap SeqRange(feature_cols)} :
          \E full_new_df \in {[idx |-> kept.idx,
                               col |-> [c \in SeqRange(cols) |->
                                          IF c = output_var \/ c \in copied
                                          THEN kept.col[c]
                                          ELSE [i \in 1..NRows(kept) |-> NaN]]]} :
          \E filled \in {fillna_frame(full_new_df, 0)} :
          \E fault \in TransformFaults(scaler, filled, cols) :
               IF fault # "none"
               THEN /\ last' = Observed("Predict", fault, cols, <<>>, <<>>,
                                        <<>>, 0, <<>>, 0)
                    /\ UNCHANGED model
               ELSE /\ model' = IF model.built THEN model
                                ELSE BuiltModel(Len(feature_cols))
                    /\ last' = Observed("Predict", "ValueError_hstack", cols,
                                        <<>>, <<>>, <<>>,
                                        PartialRows(full_new_df, lag_cols \cap copied),
                                        <<>>, 0)
    /\ UNCHANGED <<df, date_col, input_vars, var_types, num_lags, train_split,
                   feature_cols, scaler, X_train, weights_file, fnVars>>

Init ==
    /\ SessionInit
    /\ weights_file \in BOOLEAN
    /\ args = NoArgs
    /\ ret = NoRet

Next ==
    \/ \E t \in SessionTables : Upload(t)
    \/ \E c \in DateChoices : SelectDateCol(c)
    \/ \E n \in SessionLags : SetNumLags(n)
    \/ \E iv \in SessionInputs : SetInputVars(iv)
    \/ \E v \in TypedVars, t \in VarTypes : SetVarType(v, t)
    \/ \E p \in SplitChoices : SetTrainSplit(p)
    \/ Train
    \/ Test
    \/ CrossValidate
    \/ Optimize
    \/ \E t \in NewTables, dc \in DateChoices :
         \E nvt \in UNION {[S -> VarTypes] : S \in SUBSET {"P", "T"}} :
           Predict(t, dc, nvt)

Spec == Init /\ [][Next]_vars

-----------------------------------------------------------------------------
(* The validation split on drawn partitions *)

\* Partition sizes above max_samples, where the Optimize handler subsamples.
LargeSizes == {max_samples + 1, 2 * max_samples - 1, 2 * max_samples, 3 * max_samples + 4}

SplitArgs ==
    {[fn |-> f, X |-> [i \in 1..n |-> i]] :
        f \in {"train_split", "optimize_split"},
        n \in (0..MaxSeq) \cup LargeSizes}

InitSplit ==
    /\ SessionInit
    /\ weights_file = FALSE
    /\ args \in SplitArgs
    /\ ret = NoRet

\* The split of the Train handler.
CallTrainSplit ==
    /\ args.fn = "train_split"
    /\ ~ret.done
    /\ ret' = [done |-> TRUE, of |-> args.X, out |-> validation_split(args.X)]
    /\ UNCHANGED <<args, sessVars>>

\* The subset and split of the Optimize handler.
CallOptimizeSplit ==
    /\ args.fn = "optimize_split"
    /\ ~ret.done
    /\ ret' = [done |-> TRUE, of |-> optimize_subset(args.X),
               out |-> optimize_split(args.X)]
    /\ UNCHANGED <<args, sessVars>>

NextSplit == CallTrainSplit \/ CallOptimizeSplit

SpecSplit == InitSplit /\ [][NextSplit]_vars

-----------------------------------------------------------------------------
(* predict_with_uncertainty on drawn predictors and inputs *)

\* An input X is a sequence of N sequences, each stood for by one number; a
\* mean is the rational <<sum, count>>, and a standard deviation is given by
\* its square, the rational <<count * sum of squares - sum^2, count^2>>.

MaxInputs == 3

\* The choices of the "Model Type" selectbox.
ModelTypes == {"GRU", "LSTM", "RNN", "PINN", "Hybrid"}

\* build_advanced_model: the width of the output layer.  The PINN branch
\* returns a Dense(1) model before the TFP_AVAILABLE test is reached.
output_units(model_type, TFP_AVAILABLE) ==
    IF model_type = "PINN" THEN 1
    ELSE IF TFP_AVAILABLE THEN 2 ELSE 1

build_advanced_model(model_type, TFP_AVAILABLE) ==
    [built |-> TRUE, model_type |-> model_type,
     n_outputs |-> output_units(model_type, TFP_AVAILABLE)]

\* model.predict on one sequence: one value per output unit.  The units
\* are linear (Dense with no activation), so the second one takes negative
\* values, zero and positive values.
predict_row(m, x) == [j \in 1..m.n_outputs |-> IF j = 1 THEN 2 * x + 1 ELSE (x % 3) - 1]

\* np.random.normal(0, 0.01, (num_samples,) + X.shape): the draw for sample s
\* of sequence i, one of three levels, under the generator state seed.
normal(seed, s, i) == ((seed + 2 * s + i) % 3) - 1

\* The sequence-count above which fewer samples are drawn, and their cap.
LARGE_INPUT == 1000
REDUCED_SAMPLES == 20

effective_samples_from_threshold(n, num_samples) ==
    IF n >= LARGE_INPUT THEN Min2(REDUCED_SAMPLES, num_samples) ELSE num_samples

effective_samples(n, num_samples) ==
    IF n > LARGE_INPUT THEN Min2(REDUCED_SAMPLES, num_samples) ELSE num_samples

\* X_noisy[s][i] = X[i] + noise[s][i]
X_noisy(X, seed, s, i) == X[i] + normal(seed, s, i)

\* X_batch = X_noisy.reshape(-1, *X.shape[1:]): row k of the batch is
\* X_noisy[(k - 1) div N + 1][(k - 1) mod N + 1].
X_batch(X, seed, k) ==
    X_noisy(X, seed, ((k - 1) \div Len(X)) + 1, ((k - 1) % Len(X)) + 1)

\* predictions.reshape(num_samples, -1)[s][i] of the one-column predictions
\* of the batch.
reshape_by_sequence(m, X, seed, S, s, i) == predict_row(m, X_batch(X, seed, (i - 1) * S + s))[1]

reshape_samples(m, X, seed, S, s, i) == predict_row(m, X_batch(X, seed, (s - 1) * Len(X) + i))[1]

\* np.mean(predictions, axis=0) and np.std(predictions, axis=0) squared
mean_axis0(m, X, seed, S) ==
    [i \in 1..Len(X) |->
        <<SumSeq([s \in 1..S |-> reshape_samples(m, X, seed, S, s, i)]), S>>]

\* The square of np.std of the samples p.
variance(p) ==
    <<Len(p) * SumSeq([s \in 1..Len(p) |-> p[s] * p[s]]) - SumSeq(p) * SumSeq(p),
      Len(p) * Len(p)>>

var_axis0(m, X, seed, S) ==
    [i \in 1..Len(X) |-> variance([s \in 1..S |-> reshape_samples(m, X, seed, S, s, i)])]

\* The result: the path taken, the number of model.predict calls and of
\* sequences given to them, the samples used, the exception raised if any,
\* and the two returned arrays.  std2 is the square of std_pred; std_raw
\* is std_pred itself on the direct path, where it is the model's second
\* output as predicted, and empty on the Monte Carlo path, where std_pred
\* is np.std, the non-negative root of std2.
predict_with_uncertainty(m, X, num_samples, TFP_AVAILABLE, seed) ==
    IF TFP_AVAILABLE
    THEN [path |-> "direct", calls |-> 1, inferred |-> Len(X),
          num_samples |-> num_samples,
          raised |-> IF m.n_outputs < 2 THEN "IndexError" ELSE "none",
          mean |-> IF m.n_outputs < 2 THEN <<>>
                   ELSE [i \in 1..Len(X) |-> <<predict_row(m, X[i])[1], 1>>],
          std2 |-> IF m.n_outputs < 2 THEN <<>>
                   ELSE [i \in 1..Len(X) |->
                            <<predict_row(m, X[i])[2] * predict_row(m, X[i])[2], 1>>],
          std_raw |-> IF m.n_outputs < 2 THEN <<>>
                      ELSE [i \in 1..Len(X) |-> predict_row(m, X[i])[2]]]
    ELSE [path |-> "monte_carlo", calls |-> 1,
          inferred |-> effective_samples(Len(X), num_samples) * Len(X),
          num_samples |-> effective_samples(Len(X), num_samples),
          raised |-> "none",
          mean |-> mean_axis0(m, X, seed, effective_samples(Len(X), num_samples)),
          std2 |-> var_axis0(m, X, seed, effective_samples(Len(X), num_samples)),
          std_raw |-> <<>>]

\* Requested sample counts: the widget allows 10..1000, Test passes at most 20.
SampleChoices == {10, REDUCED_SAMPLES, REDUCED_SAMPLES + 1}
SeedChoices == 0..2
InputSizes == (1..MaxInputs) \cup {LARGE_INPUT, LARGE_INPUT + 1}

UncArgs ==
    {[fn |-> "predict_with_uncertainty", TFP_AVAILABLE |-> t, model_type |-> mt,
      X |-> [i \in 1..n |-> i], num_samples |-> ns, seed |-> sd] :
        t \in BOOLEAN, mt \in ModelTypes, n \in InputSizes,
        ns \in SampleChoices, sd \in SeedChoices}

InitUnc ==
    /\ SessionInit
    /\ weights_file = FALSE
    /\ args \in UncArgs
    /\ ret = NoRet

CallPredictWithUncertainty ==
    /\ args.fn = "predict_with_uncertainty"
    /\ ~ret.done
    /\ \E m \in {build_advanced_model(args.model_type, args.TFP_AVAILABLE)} :
        ret' = [done |-> TRUE, model |-> m,
                out |-> predict_with_uncertainty(m, args.X, args.num_samples,
                                                 args.TFP_AVAILABLE, args.seed)]
    /\ UNCHANGED <<args, sessVars>>

NextUnc == CallPredictWithUncertainty

SpecUnc == InitUnc /\ [][NextUnc]_vars

-----------------------------------------------------------------------------
(* The metric functions nse and kge on drawn arrays *)

\* actual is a sequence of integers; predicted is a sequence of integers p
\* over a common denominator den, standing for the values p[i] / den.  A
\* result is [kind |-> "value", ...], or [kind |-> "nan"] or
\* [kind |-> "-inf"] where the floating-point division is by zero.

MaxMetricLen == 3

\* count * np.sum(x), np.sum(x * y) and the scaled moments built from them
Dot(x, y) == SumSeq([i \in 1..Len(x) |-> x[i] * y[i]])

\* Len(x)^2 * np.var(x)
var_n2(x) == Len(x) * Dot(x, x) - SumSeq(x) * SumSeq(x)

\* Len(x)^2 * covariance of x and y
cov_n2(x, y) == Len(x) * Dot(x, y) - SumSeq(x) * SumSeq(y)

\* A wrong variant of sum_sq_dev: deviations from zero, not from the mean.
sum_sq_about_zero(actual) == Len(actual) * Len(actual) * Dot(actual, actual)

\* Len(actual)^2 * np.sum((actual - np.mean(actual)) ** 2)
sum_sq_dev(actual) ==
    SumSeq([i \in 1..Len(actual) |->
              (Len(actual) * actual[i] - SumSeq(actual))
            * (Len(actual) * actual[i] - SumSeq(actual))])

\* den^2 * np.sum((actual - predicted) ** 2)
sum_sq_err(actual, predicted, den) ==
    SumSeq([i \in 1..Len(actual) |->
              (den * actual[i] - predicted[i]) * (den * actual[i] - predicted[i])])

\* nse(actual, predicted) = 1 - sum_sq_err / sum_sq_dev
nse(actual, predicted, den) ==
    IF Len(actual) = 0 \/ sum_sq_dev(actual) = 0
    THEN IF Len(actual) = 0 \/ sum_sq_err(actual, predicted, den) = 0
         THEN [kind |-> "nan"] ELSE [kind |-> "-inf"]
    ELSE [kind |-> "value",
          val |-> <<den * den * sum_sq_dev(actual)
                      - Len(actual) * Len(actual) * sum_sq_err(actual, predicted, den),
                    den * den * sum_sq_dev(actual)>>]

\* A wrong variant of alpha_sq: the spread of predicted over the mean of
\* actual.
alpha_sq_over_mean(actual, predicted, den) ==
    <<var_n2(predicted), den * den * SumSeq(actual) * SumSeq(actual)>>

\* alpha ** 2 = np.var(predicted) / np.var(actual)
alpha_sq(actual, predicted, den) == <<var_n2(predicted), den * den * var_n2(actual)>>

\* beta = np.mean(predicted) / np.mean(actual)
beta(actual, predicted, den) == <<SumSeq(predicted), den * SumSeq(actual)>>

\* kge(actual, predicted): r by its sign and its square, alpha by its
\* square, beta; the score is 1 - sqrt((r-1)^2 + (alpha-1)^2 + (beta-1)^2).
kge(actual, predicted, den) ==
    IF Len(actual) = 0 \/ var_n2(actual) = 0 \/ var_n2(predicted) = 0
    THEN [kind |-> "nan"]
    ELSE IF SumSeq(actual) = 0
    THEN IF SumSeq(predicted) = 0 THEN [kind |-> "nan"] ELSE [kind |-> "-inf"]
    ELSE [kind |-> "value",
          r_positive |-> cov_n2(actual, predicted) > 0,
          r_sq |-> <<cov_n2(actual, predicted) * cov_n2(actual, predicted),
                     var_n2(actual) * var_n2(predicted)>>,
          alpha_sq |-> alpha_sq(actual, predicted, den),
          beta |-> beta(actual, predicted, den)]

\* The predictors the arrays are scored against: the perfect one, the
\* constant mean of actual, and one that is off by one everywhere.
predicted_by(kind, actual) ==
    CASE kind = "perfect" -> [den |-> 1, num |-> actual]
      [] kind = "mean" -> [den |-> Max2(Len(actual), 1),
                           num |-> [i \in 1..Len(actual) |-> SumSeq(actual)]]
      [] kind = "off_by_one" -> [den |-> 1, num |-> [i \in 1..Len(actual) |-> actual[i] + 1]]

\* The arrays drawn: the de-scaled values of a Test run can lie on either
\* side of zero.
MetricArgs ==
    {[fn |-> f, actual |-> a, predictor |-> k, predicted |-> predicted_by(k, a)] :
        f \in {"nse", "kge"}, k \in {"perfect", "mean", "off_by_one"},
        a \in UNION {[1..n -> -1..2] : n \in 0..MaxMetricLen}}

InitMetrics ==
    /\ SessionInit
    /\ weights_file = FALSE
    /\ args \in MetricArgs
    /\ ret = NoRet

CallNse ==
    /\ args.fn = "nse"
    /\ ~ret.done
    /\ ret' = [done |-> TRUE, out |-> nse(args.actual, args.predicted.num, args.predicted.den)]
    /\ UNCHANGED <<args, sessVars>>

CallKge ==
    /\ args.fn = "kge"
    /\ ~ret.done
    /\ ret' = [done |-> TRUE, out |-> kge(args.actual, args.predicted.num, args.predicted.den)]
    /\ UNCHANGED <<args, sessVars>>

NextMetrics == CallNse \/ CallKge

SpecMetrics == InitMetrics /\ [][NextMetrics]_vars

-----------------------------------------------------------------------------
(* The Optimize Hyperparameters handler, one step at a time *)

\* for i in range(8): study.optimize(..., n_trials=1), line 1221
n_trials == 8

\* A wrong variant of clear_session that leaves the backend as it is.
clear_session_keeps(backend) == backend

\* tf.keras.backend.clear_session(): the backend holds no model state.
clear_session(backend) == "clear"

\* The stored training sequences of the sessions the handler is run in:
\* none, too few to leave a training row after the split, and enough.
OptSequences ==
    {NoSequences} \cup {[set |-> TRUE, rows |-> [i \in 1..n |-> i]] : n \in {4, 10}}

\* A run of the handler: the session's X_train, and whether the backend
\* holds the state of an earlier model when the button is pressed.
OptArgs ==
    [fn : {"optimize"}, X_train : OptSequences, backend : {"clear", "model"}]

\* The position of a run before its first statement.
\*   pc      "guard", "loop", "build", "fit" or "done"
\*   study   whether optuna.create_study was called
\*   trials  the state Optuna recorded for every trial that ended
\*   ends    how the objective of each of these trials ended
\*   n_opt   len(X_train_opt)
OptStart(a) ==
    [done |-> FALSE, pc |-> "guard", backend |-> a.backend, study |-> FALSE,
     trials |-> <<>>, ends |-> <<>>, fault |-> "none", n_opt |-> 0]

InitOpt ==
    /\ SessionInit
    /\ weights_file = FALSE
    /\ args \in OptArgs
    /\ ret = OptStart(args)

\* The handler up to the trial loop.  The keys "X_train" and "y_train" are
\* set to None when the session starts, so the "Please train the model
\* first" branch is not taken; without training data len(None) raises in
\* the try and the except reports "Optimization failed".
OptimizeBegin ==
    /\ ret.pc = "guard"
    /\ IF train_first
       THEN ret' = [ret EXCEPT !.done = TRUE, !.pc = "done",
                               !.fault = "train_first"]
       ELSE IF ~args.X_train.set
       THEN ret' = [ret EXCEPT !.done = TRUE, !.pc = "done",
                               !.fault = "TypeError_caught",
                               !.backend = clear_session(clear_session(@))]
       ELSE ret' = [ret EXCEPT !.pc = "loop", !.study = TRUE,
                               !.backend = clear_session(@),
                               !.n_opt = Len(optimize_split(args.X_train.rows).X_train)]
    /\ UNCHANGED <<args, sessVars>>

\* study.optimize(..., n_trials=1) enters objective: clear_session and the
\* suggested hyperparameters.
TrialBegin ==
    /\ ret.pc = "loop"
    /\ Len(ret.trials) < n_trials
    /\ ret' = [ret EXCEPT !.pc = "build", !.backend = clear_session(@)]
    /\ UNCHANGED <<args, sessVars>>

\* objective builds its model.  If that raises, the except clears the
\* backend and raises TrialPruned, which Optuna records.
TrialBuild ==
    /\ ret.pc = "build"
    /\ \E built \in BOOLEAN :
         IF built
         THEN ret' = [ret EXCEPT !.pc = "fit", !.backend = "model"]
         ELSE ret' = [ret EXCEPT !.pc = "loop",
                                 !.backend = clear_session("model"),
                                 !.trials = Append(@, "PRUNED"),
                                 !.ends = Append(@, "build_raises")]
    /\ UNCHANGED <<args, sessVars>>

\* objective fits the model and ends: it returns the best validation loss
\* after clearing the backend, or the except clears the backend and raises
\* TrialPruned.  Fitting on no training row raises.
TrialFit ==
    /\ ret.pc = "fit"
    /\ \E end \in (IF ret.n_opt = 0 THEN {"fit_raises"}
                   ELSE {"complete", "fit_raises"}) :
         ret' = [ret EXCEPT !.pc = "loop",
                            !.backend = clear_session(@),
                            !.trials = Append(@, IF end = "complete"
                                                 THEN "COMPLETE" ELSE "PRUNED"),
                            !.ends = Append(@, end)]
    /\ UNCHANGED <<args, sessVars>>

\* The handler after the loop: study.best_params raises when no trial
\* completed and the except reports it; both ways clear the backend.
OptimizeEnd ==
    /\ ret.pc = "loop"
    /\ Len(ret.trials) = n_trials
    /\ ret' = [ret EXCEPT !.done = TRUE, !.pc = "done",
                          !.backend = clear_session(@),
                          !.fault = IF \E k \in 1..Len(ret.trials) :
                                         ret.trials[k] = "COMPLETE"
                                    THEN "none" ELSE "ValueError_caught"]
    /\ UNCHANGED <<args, sessVars>>

NextOpt == OptimizeBegin \/ TrialBegin \/ TrialBuild \/ TrialFit \/ OptimizeEnd

\* The handler is straight-line code: a run that can take a step takes it.
SpecOpt == InitOpt /\ [][NextOpt]_vars /\ WF_vars(NextOpt)

-----------------------------------------------------------------------------
(* The tensors of the Train and Test handlers on longer tables *)

\* A table of n rows with small cell values.
LongTable(n) ==
    [idx |-> [i \in 1..n |-> i],
     col |-> [c \in {"Date", "P", "T", "Q"} |->
                [i \in 1..n |->
                   CASE c = "Date" -> i
                     [] c = "P" -> i % 3
                     [] c = "T" -> 1
                     [] c = "Q" -> i % 5]]]

\* The row counts of the tables, around the 100 rows of the worked example.
ShapeRows == {10, 50, 99, 100, 101}

ShapeArgs ==
    {[fn |-> "split_tensors", df |-> LongTable(n), input_vars |-> iv,
      var_types |-> [v \in {"P", "T"} |-> ty], num_lags |-> l, train_split |-> p] :
        n \in ShapeRows, iv \in SessionInputs, ty \in VarTypes,
        l \in 1..MaxLags, p \in SplitChoices}

InitShape ==
    /\ SessionInit
    /\ weights_file = FALSE
    /\ args \in ShapeArgs
    /\ ret = NoRet

\* A wrong variant of partition_size that rounds up.
partition_size_ceil(n, percent) == (n * percent + 99) \div 100

\* int(len(processed_df) * train_split), train_split being percent / 100.
partition_size(n, percent) == (n * percent) \div 100

\* The shapes of X_train and X_test after the reshape to
\* (rows, 1, columns), for a processed table of n rows and F feature
\* columns: the scaled matrix without its last column, one time step.
tensor_shapes(n, F, percent) ==
    [X_train |-> <<partition_size(n, percent), 1, F>>,
     X_test |-> <<n - partition_size(n, percent), 1, F>>]

\* The Train handler from preprocess_data to the reshaped tensors (the Test
\* handler does the same with the stored scaler).
CallSplitTensors ==
    /\ args.fn = "split_tensors"
    /\ ~ret.done
    /\ \E pp \in {preprocess_data(args.df, args.input_vars, output_var,
                                  args.var_types, args.num_lags, "Date",
                                  handle_missing, remove_outliers,
                                  outlier_threshold)} :
         ret' = [done |-> TRUE, rows |-> NRows(pp.df),
                 feature_cols |-> pp.feature_cols,
                 out |-> tensor_shapes(NRows(pp.df), Len(pp.feature_cols),
                                       args.train_split)]
    /\ UNCHANGED <<args, sessVars>>

NextShape == CallSplitTensors

SpecShape == InitShape /\ [][NextShape]_vars

-----------------------------------------------------------------------------
(* generate_future_predictions, one loop iteration at a time *)

\* The longest prediction horizon of the model.
MaxSteps == 3

\* An ndarray: its shape and its cells in row-major order.  A shape <<>>
\* is a scalar.
Array(shape, data) == [shape |-> shape, data |-> data]

\* a[0]: the first row of a matrix, the first cell of a vector.  Indexing a
\* scalar raises.
first_item(a) ==
    IF Len(a.shape) = 2 THEN Array(<<a.shape[2]>>, SubSeq(a.data, 1, a.shape[2]))
    ELSE Array(<<>>, <<a.data[1]>>)

\* np.roll(a, -1): the cells move one place to the front, the first to the
\* end; a scalar comes back as a 0-d array.
roll_back(a) == Array(a.shape, Tail(a.data) \o <<Head(a.data)>>)

\* The scaled sequences last_sequence can be: X_new[-1], of shape (1, F).
LastSequences ==
    UNION {{Array(<<1, F>>, d) : d \in [1..F -> 0..1]} : F \in 1..MaxInputs}

\* model.predict on one sequence of the model's width: one row of as many
\* columns as the model has outputs, the first a function of the input.
predict_one(units, x) ==
    Array(<<1, units>>, [k \in 1..units |-> IF k = 1 THEN SumSeq(x) % 2 ELSE 1])

FutureArgs ==
    [fn : {"generate_future_predictions"}, last_sequence : LastSequences,
     num_steps : 1..MaxSteps, units : {1, 2}]

\* The function's state before the loop.
\*   current_sequence    the array of that name
\*   calls               the widths of the inputs given to model.predict
\*   future_predictions  the list of that name
FutureStart(a) ==
    [done |-> FALSE, raised |-> "none", current_sequence |-> a.last_sequence,
     calls |-> <<>>, future_predictions |-> <<>>]

InitFuture ==
    /\ SessionInit
    /\ weights_file = FALSE
    /\ args \in FutureArgs
    /\ ret = FutureStart(args)

\* One iteration of the loop.  The model takes inputs of the width of
\* last_sequence only.  current_sequence[0] is a vector in the first
\* iteration and a scalar from the second on, where the item assignment
\* into the rolled 0-d array raises IndexError; assigning a prediction of
\* two outputs to one cell raises ValueError.
FutureStep ==
    /\ ~ret.done
    /\ Len(ret.calls) < args.num_steps
    /\ LET x == ret.current_sequence.data
           F == Len(args.last_sequence.data)
           pred == predict_one(args.units, x)
           new_sequence == roll_back(first_item(ret.current_sequence))
       IN  IF Len(x) # F
           THEN ret' = [ret EXCEPT !.done = TRUE, !.raised = "ValueError_input_shape",
                                   !.calls = Append(@, Len(x))]
           ELSE IF new_sequence.shape = <<>>
           THEN ret' = [ret EXCEPT !.done = TRUE, !.raised = "IndexError_0d",
                                   !.calls = Append(@, Len(x)),
                                   !.future_predictions = Append(@, pred.data)]
           ELSE IF args.units > 1
           THEN ret' = [ret EXCEPT !.done = TRUE, !.raised = "ValueError_sequence",
                                   !.calls = Append(@, Len(x)),
                                   !.future_predictions = Append(@, pred.data)]
           ELSE ret' = [ret EXCEPT
                          !.calls = Append(@, Len(x)),
                          !.future_predictions = Append(@, pred.data),
                          !.current_sequence =
                              Array(new_sequence.shape,
                                    [new_sequence.data EXCEPT
                                        ![Len(new_sequence.data)] = pred.data[1]])]
    /\ UNCHANGED <<args, sessVars>>

\* return np.array(future_predictions)
FutureReturn ==
    /\ ~ret.done
    /\ Len(ret.calls) = args.num_steps
    /\ ret' = [ret EXCEPT !.done = TRUE]
    /\ UNCHANGED <<args, sessVars>>

NextFuture == FutureStep \/ FutureReturn

SpecFuture == InitFuture /\ [][NextFuture]_vars

-----------------------------------------------------------------------------
(* The metric selection, the metrics a Test run stores, and the Results table *)

\* What st.multiselect(...) or all_metrics can give: the chosen names, and
\* every name when none is chosen.
MetricSelections == {S \in SUBSET SeqRange(all_metrics) : S # {}}

\* The session as far as the Results table reads it.
\*   selected_metrics  st.session_state.selected_metrics of the last run
\*   metrics           the keys of st.session_state.metrics, once stored
\*   results           what the Results section of the last run did
ResultsStart ==
    [done |-> FALSE, selected_metrics |-> SeqRange(all_metrics),
     metrics |-> [stored |-> FALSE],
     results |-> [rendered |-> FALSE, fault |-> "none"]]

InitResults ==
    /\ SessionInit
    /\ weights_file = FALSE
    /\ args = [fn |-> "results"]
    /\ ret = ResultsStart

\* The Results section of one script run: nothing while no metrics are
\* stored; otherwise st.session_state.metrics[m] for every selected m.
results_section(selected, metrics) ==
    IF ~metrics.stored THEN [rendered |-> FALSE, fault |-> "none"]
    ELSE [rendered |-> TRUE, looked_up |-> selected,
          fault |-> IF selected \subseteq metrics.keys THEN "none" ELSE "KeyError"]

\* A script run after the user changed the metric selection to S.
SelectMetrics(S) ==
    /\ args.fn = "results"
    /\ ret' = [ret EXCEPT !.selected_metrics = S,
                          !.results = results_section(S, ret.metrics)]
    /\ UNCHANGED <<args, sessVars>>

\* A script run after the user pressed Test Model.  A run that comes to the
\* metrics stores one entry per selected metric; a run that stops earlier
\* stores nothing and ends the script before the Results section.
PressTest(completes) ==
    /\ args.fn = "results"
    /\ IF completes
       THEN \E stored \in {[stored |-> TRUE, keys |-> ret.selected_metrics]} :
              ret' = [ret EXCEPT !.metrics = stored,
                                 !.results = results_section(ret.selected_metrics,
                                                             stored)]
       ELSE ret' = [ret EXCEPT !.results = [rendered |-> FALSE, fault |-> "none"]]
    /\ UNCHANGED <<args, sessVars>>

NextResults ==
    \/ \E S \in MetricSelections : SelectMetrics(S)
    \/ \E completes \in BOOLEAN : PressTest(completes)

SpecResults == InitResults /\ [][NextResults]_vars

-----------------------------------------------------------------------------
(* Claims *)

NoMissing(d) == \A c \in Columns(d) : \A i \in 1..NRows(d) : d.col[c][i] # NaN

PreDone == ret.done /\ args.fn = "preprocess_data"

SingleDynamicInput ==
    /\ PreDone
    /\ args.input_vars = <<"P">>
    /\ args.var_types["P"] = "Dynamic"
    /\ NoMissing(args.df)

\* C5: for every lag count >= 1, a table with a single Dynamic input and no
\* missing value comes back from preprocess_data without its first lag-count
\* rows: with original_rows - lag_count rows when it has more rows than
\* lags, and empty otherwise.
C5_RowsAfterLagging ==
    SingleDynamicInput =>
        LET n == NRows(args.df)
            l == args.num_lags
        IN  /\ NRows(ret.out.df) = Max2(n - l, 0)
            /\ ret.out.df.idx = [i \in 1..Max2(n - l, 0) |-> args.df.idx[l + i]]

C5_Witness ==
    /\ SingleDynamicInput
    /\ args.remove_outliers
    /\ args.num_lags = 2
    /\ NRows(args.df) = 5
    /\ ret.out.df.idx = <<3, 4, 5>>

\* C5 as it is worded: the returned table has exactly
\* original_rows - lag_count rows, whatever the two numbers are.
C5_RowsMinusLags ==
    SingleDynamicInput => NRows(ret.out.df) = NRows(args.df) - args.num_lags

\* Position of the first feature of input variable number p in the list.
RECURSIVE FeatureOffset(_, _, _, _)
FeatureOffset(iv, ty, l, p) ==
    IF p = 1 THEN 0
    ELSE FeatureOffset(iv, ty, l, p - 1)
         + (IF ty[iv[p - 1]] = "Dynamic" THEN l ELSE 1)

\* C7: the feature list preprocess_data returns holds, in input-variable
\* order, Lag_1..Lag_n of every Dynamic input and the bare name of every
\* Static input, then Lag_1..Lag_n of the output; its length is
\* n * (Dynamic inputs + 1) + Static inputs; the un-lagged output is not in it.
C7_FeatureList ==
    (PreDone /\ ~ret.out.raised) =>
    LET iv == args.input_vars
        ty == args.var_types
        l == args.num_lags
        fc == ret.out.feature_cols
        dyn == {p \in 1..Len(iv) : ty[iv[p]] = "Dynamic"}
        nIn == FeatureOffset(iv, ty, l, Len(iv) + 1)
    IN  /\ Len(fc) = l * (Cardinality(dyn) + 1) + (Len(iv) - Cardinality(dyn))
        /\ \A p \in 1..Len(iv) :
             LET o == FeatureOffset(iv, ty, l, p)
             IN  IF p \in dyn
                 THEN \A k \in 1..l : fc[o + k] = LagName(iv[p], k)
                 ELSE fc[o + 1] = iv[p]
        /\ \A k \in 1..l : fc[nIn + k] = LagName(args.output_var, k)
        /\ \A i \in 1..Len(fc) : fc[i] # args.output_var

C7_Witness ==
    /\ PreDone
    /\ args.input_vars = <<"T", "P">>
    /\ args.var_types["T"] = "Static"
    /\ args.var_types["P"] = "Dynamic"
    /\ args.num_lags = 2
    /\ ret.out.feature_cols = <<"T", "P_Lag_1", "P_Lag_2", "Q_Lag_1", "Q_Lag_2">>

\* The handlers that hand a matrix to scaler.transform of the session scaler.
Consumers == {"Test", "CV", "Predict"}

\* The last run called scaler.transform.
CalledTransform == last.op \in Consumers /\ last.xformCols # <<>>

\* The last run got past scaler.transform.
Transformed ==
    /\ CalledTransform
    /\ last.fault \in {"none", "ValueError_hstack", "ValueError_too_few_rows",
                      "IndexError_predict"}

\* C1: the matrix a de-scaling flow hands to inverse_transform has its
\* columns in the order of the matrix the scaler was fit on, the feature
\* columns followed by the output column.
C1_InverseColumnOrder ==
    last.invCols # <<>> => last.invCols = scaler.cols

\* C2: the column list a Test, cross-validation or new-data prediction run
\* builds its transform matrix from is the list the session scaler was fit
\* on by the last Train.
C2_TransformFeatureList ==
    (CalledTransform /\ scaler.fit) => last.xformCols = scaler.cols

\* C3: whenever Test, cross-validation or new-data prediction calls
\* transform on the session scaler, a scaler fit by a Train of this session
\* exists.
C3_ScalerExists ==
    CalledTransform => scaler.fit

\* The cells of column c in the rows 1..k of d.
CellsOf(d, c, k) == {d.col[c][i] : i \in 1..k}

\* The scaler holds, column by column, the least and the greatest cell of
\* the first int(rows * train_split) processed rows, and saw that many rows.
FitOnTrainingRows ==
    \E pp \in {Pipeline} :
    \E k \in {(NRows(pp.df) * train_split) \div 100} :
        /\ scaler.fit
        /\ scaler.cols = Append(pp.feature_cols, output_var)
        /\ scaler.n_samples_seen = k
        /\ \A j \in 1..Len(scaler.cols) :
             \E cells \in {CellsOf(pp.df, scaler.cols[j], k)} :
                 /\ scaler.data_min[j] \in cells
                 /\ scaler.data_max[j] \in cells
                 /\ \A x \in cells : scaler.data_min[j] <= x /\ x <= scaler.data_max[j]

\* C4: only Train fits or replaces the session scaler, and it fits it on
\* the rows of the training partition only; Test, cross-validation,
\* Optimize and new-data prediction leave the scaler as it is.
C4_OnlyTrainFits ==
    /\ [][scaler' # scaler => last'.op = "Train"]_vars
    /\ []((last.op = "Train" /\ last.fault \in TrainingOutcomes)
             => FitOnTrainingRows)

\* A Train has just fit the scaler on a partition that leaves out a test row
\* whose output lies above every training row's.
C4_Witness ==
    /\ last.op = "Train"
    /\ scaler.fit
    /\ \E pp \in {Pipeline} :
         /\ scaler.n_samples_seen < NRows(pp.df)
         /\ \E i \in 1..NRows(pp.df) :
              pp.df.col[output_var][i] > scaler.data_max[Len(scaler.cols)]

\* C6: no row with a partially filled lag window is kept and scaled with
\* the gaps replaced by a filler value.
C6_NoPartialRows ==
    Transformed => last.partial = 0

\* C8: in the Test flow the "actual" values reconstructed from the scaled
\* targets equal the original output-column values of the processed rows.
C8_ActualEqualsOriginal ==
    (last.op = "Test" /\ last.fault = "none") =>
        /\ Len(last.actual) = Len(last.orig)
        /\ \A i \in 1..Len(last.orig) :
             RatEq(last.actual[i], RatOfInt(last.orig[i]))

\* C10: when a date column is selected, the rows Train and Test lag-expand
\* and partition are in ascending date order.
C10_PartitionSortedByDate ==
    (date_col # "None" /\ last.op \in {"Train", "Test"}) =>
        \A i \in 1..Len(last.rowDates), j \in 1..Len(last.rowDates) :
            i < j => last.rowDates[i] <= last.rowDates[j]

SplitDone == ret.done /\ args.fn \in {"train_split", "optimize_split"}

\* C9: for a partition of n >= 1 sequences the validation set is the last
\* floor(0.2 * n) of them and the training set the first n - floor(0.2 * n);
\* the two are disjoint, in order, cover the partition, and the training
\* set is not empty.
C9_ValidationSplit ==
    (SplitDone /\ Len(ret.of) >= 1) =>
        LET n == Len(ret.of)
            v == n \div 5
        IN  /\ ret.out.X_val = SubSeq(ret.of, n - v + 1, n)
            /\ ret.out.X_train = SubSeq(ret.of, 1, n - v)
            /\ ret.out.X_train \o ret.out.X_val = ret.of
            /\ SeqRange(ret.out.X_train) \cap SeqRange(ret.out.X_val) = {}
            /\ ret.out.X_train # <<>>

UncDone == ret.done /\ args.fn = "predict_with_uncertainty"

\* C11: predict_with_uncertainty takes the direct path exactly when the
\* predictor it is given has two outputs (a mean and a scale per sample),
\* for every model type build_advanced_model can build.
C11_PathMatchesOutputs ==
    UncDone => ((ret.out.path = "direct") <=> (ret.model.n_outputs = 2))

\* C12: in the Monte Carlo path with N sequences and S effective samples,
\* inference runs on exactly S * N perturbed sequences, the mean and the
\* standard deviation have N entries each, and entry i aggregates the S
\* predictions made for the perturbed copies of sequence i and no other.
C12_MonteCarloPerSequence ==
    (UncDone /\ ret.out.path = "monte_carlo") =>
        \E N \in {Len(args.X)}, S \in {ret.out.num_samples} :
            /\ ret.out.calls = 1
            /\ ret.out.inferred = S * N
            /\ Len(ret.out.mean) = N
            /\ Len(ret.out.std2) = N
            /\ \A i \in 1..N :
                \E p \in {[s \in 1..S |->
                            predict_row(ret.model, args.X[i] + normal(args.seed, s, i))[1]]} :
                    /\ ret.out.mean[i] = <<SumSeq(p), S>>
                    /\ ret.out.std2[i] = variance(p)

C12_Witness ==
    /\ UncDone
    /\ ret.out.path = "monte_carlo"
    /\ Len(args.X) = MaxInputs
    /\ ret.out.num_samples = 10
    /\ ret.out.inferred = 10 * MaxInputs
    /\ ret.out.mean[1] # ret.out.mean[2]

\* C13: in the Monte Carlo path the number of samples used is
\* min(20, num_samples) when the input has more than 1000 sequences and the
\* requested num_samples when it has 1000 or fewer.
C13_EffectiveSamples ==
    (UncDone /\ ret.out.path = "monte_carlo") =>
        /\ Len(args.X) > 1000 => ret.out.num_samples = Min2(20, args.num_samples)
        /\ Len(args.X) <= 1000 => ret.out.num_samples = args.num_samples

C13_Witness ==
    /\ UncDone
    /\ ret.out.path = "monte_carlo"
    /\ Len(args.X) = 1000
    /\ args.num_samples = 21
    /\ ret.out.num_samples = 21

\* The last run was a Test that reached its metrics and results tables.
Evaluated == last.op = "Test" /\ last.eval.made

EvaluatedSplits == {"Training", "Testing"}

NonNegative(y) == \A i \in 1..Len(y) : y[i][1] >= 0

MinOf4(a) == Min2(Min2(a[1], a[2]), Min2(a[3], a[4]))

C18_MapeGuarded ==
    (Evaluated /\ "MAPE" \in SeqRange(last.eval.metrics)) =>
        \A sp \in EvaluatedSplits :
            \A i \in 1..Len(last.eval[sp].fed.actual) :
                last.eval[sp].fed.actual[i][1] # 0

NseDone == ret.done /\ args.fn = "nse"
KgeDone == ret.done /\ args.fn = "kge"

\* The array has two entries that differ.
Varies(a) == \E i, j \in 1..Len(a) : a[i] # a[j]

IsValue(out, r) == out.kind = "value" /\ RatEq(out.val, r)

\* The score is 1: the three terms under the root are all zero.
KgeIsOne(out) ==
    /\ out.kind = "value"
    /\ out.r_positive
    /\ RatEq(out.r_sq, <<1, 1>>)
    /\ RatEq(out.alpha_sq, <<1, 1>>)
    /\ RatEq(out.beta, <<1, 1>>)

\* C16: for every actual array with two entries that differ,
\* nse(actual, actual) is 1 and nse(actual, p) is 0 for the constant p whose
\* every entry is mean(actual).
C16_NseReferencePoints ==
    (NseDone /\ Varies(args.actual)) =>
        /\ args.predictor = "perfect" => IsValue(ret.out, <<1, 1>>)
        /\ args.predictor = "mean" => IsValue(ret.out, <<0, 1>>)

C16_Witness ==
    /\ NseDone
    /\ args.actual = <<0, 2, 1>>
    /\ args.predictor = "mean"
    /\ args.predicted.num = <<3, 3, 3>>
    /\ IsValue(ret.out, <<0, 1>>)

\* C16 as stated, for every actual array.
C16_NseEveryArray ==
    NseDone =>
        /\ args.predictor = "perfect" => IsValue(ret.out, <<1, 1>>)
        /\ args.predictor = "mean" => IsValue(ret.out, <<0, 1>>)

\* C17: for every actual array with two entries that differ and a mean
\* other than zero, kge(actual, actual) is 1.
C17_KgePerfect ==
    (KgeDone /\ args.predictor = "perfect"
        /\ Varies(args.actual) /\ SumSeq(args.actual) # 0) => KgeIsOne(ret.out)

C17_Witness ==
    /\ KgeDone
    /\ args.predictor = "perfect"
    /\ args.actual = <<2, -1, 1>>
    /\ KgeIsOne(ret.out)

\* C17 as stated, for every actual array.
C17_KgeEveryArray ==
    (KgeDone /\ args.predictor = "perfect") => KgeIsOne(ret.out)

\* The call hit an exception: the output column is missing, or a median or
\* mean is asked of a column of text.
ExceptionInside ==
    \/ args.output_var \notin Columns(args.df)
    \/ /\ args.handle_missing \in {"median", "mean"}
       /\ \E c \in (SeqRange(args.input_vars) \cup {args.output_var}) \cap Columns(args.df) :
            \E i \in 1..NRows(args.df) : args.df.col[c][i] = Text

\* C19: preprocess_data returns for every input; when an exception occurs
\* inside it, it returns the original table unchanged and, as the feature
\* list, the input variables the table has, without lag names; otherwise it
\* returns the lagged feature list.
C19_FallbackOnException ==
    PreDone =>
        /\ ret.out.raised <=> ExceptionInside
        /\ ret.out.raised =>
             /\ ret.out.df = args.df
             /\ ret.out.feature_cols =
                  SelectSeq(args.input_vars, LAMBDA v : v \in Columns(args.df))
             /\ \A c \in SeqRange(ret.out.feature_cols) : ~IsLagCol(c)
        /\ ~ret.out.raised =>
             \E c \in SeqRange(ret.out.feature_cols) : IsLagCol(c)

\* A call on a table that lacks the output column and one of the inputs.
C19_Witness ==
    /\ PreDone
    /\ ret.out.raised
    /\ args.output_var \notin Columns(args.df)
    /\ args.input_vars = <<"T", "P">>
    /\ "P" \notin Columns(args.df)
    /\ ret.out.feature_cols = <<"T">>
    /\ ret.out.df = args.df

\* C19 as stated: the feature list of the fallback is the list of input
\* variables the call was given.
C19_FallbackGivenInputs ==
    (PreDone /\ ret.out.raised) =>
        /\ ret.out.df = args.df
        /\ ret.out.feature_cols = args.input_vars

\* The column is not empty and all its cells hold the same number.
ConstantColumn(c) == Len(c) >= 1 /\ c[1] # NaN /\ \A i \in 1..Len(c) : c[i] = c[1]

\* C20: with outlier removal enabled, a column of the call whose values are
\* all equal goes through preprocess_data without an exception, and every
\* row that is returned holds the column's original value.
C20_ConstantColumnUntouched ==
    (PreDone /\ args.remove_outliers) =>
        \A c \in SeqRange(args.input_vars) \cup {args.output_var} :
            ConstantColumn(args.df.col[c]) =>
                /\ ~ret.out.raised
                /\ \A k \in 1..NRows(ret.out.df) :
                     ret.out.df.col[c][k] = args.df.col[c][ret.out.df.idx[k]]

\* The constant column T, kept as a Static input beside P, at the lowest
\* outlier threshold: every processed row still holds its value.
C20_Witness ==
    /\ PreDone
    /\ args.remove_outliers
    /\ args.outlier_threshold = 2
    /\ args.input_vars = <<"P", "T">>
    /\ args.var_types["T"] = "Static"
    /\ NRows(args.df) = MaxRows
    /\ NRows(ret.out.df) >= 2
    /\ \A k \in 1..NRows(ret.out.df) : ret.out.df.col["T"][k] = TValue


\* C21: after a Train or Test run that reached its feature-engineering step
\* with feature engineering enabled and a date column selected, the table
\* that left the step has the columns hour, day, month, day_of_week and
\* is_weekend.
C21_CalendarColumnsAdded ==
    (/\ last.op \in {"Train", "Test"}
     /\ last.fe.reached
     /\ enable_feature_engineering
     /\ date_col # "None")
    => calendar_columns \subseteq last.fe.columns


\* C22: a Train or Test run whose table has no usable row left after lag
\* expansion ends in the reported "insufficient rows" error, not in a call
\* of the scaler or the predictor.
C22_TooFewRowsRejected ==
    (/\ last.op \in {"Train", "Test"}
     /\ last.fe.reached
     /\ last.fe.rows = 0)
    => last.fault = "insufficient_rows"


\* The ways a Train run ends when training raises.
TrainingFailed == {"training_failed", "training_failed_after_checkpoint"}

\* C23: a Train run whose training raises leaves the session's predictor
\* and the weights file as they were before the run.
C23_FailedTrainLeavesNothing ==
    [][(last'.op = "Train" /\ last'.fault \in TrainingFailed)
       => (model' = model /\ weights_file' = weights_file)]_vars


\* A step of the handler's run records at most one more trial.
OneMoreTrial ==
    \/ ret'.trials = ret.trials
    \/ /\ Len(ret'.trials) = Len(ret.trials) + 1
       /\ SubSeq(ret'.trials, 1, Len(ret.trials)) = ret.trials

\* C24: an Optimize run that has training data runs its trials one after
\* another and ends with exactly 8 of them; the backend is clear when a
\* trial builds its predictor and clear again after every trial, completed
\* or failed; a trial whose objective raised is recorded as pruned, and the
\* run then goes on to the 8th trial.
C24_EightTrials ==
    /\ [](/\ Len(ret.trials) <= n_trials
          /\ ret.pc \in {"build", "loop"} => ret.backend = "clear"
          /\ \A k \in 1..Len(ret.trials) :
               ret.trials[k] = "PRUNED" <=> ret.ends[k] # "complete"
          /\ ret.done /\ ret.study => Len(ret.trials) = n_trials)
    /\ [][OneMoreTrial]_vars
    /\ (ret.study ~> (ret.done /\ Len(ret.trials) = n_trials))

\* An Optimize run that ended after 8 trials, the first of them failed and
\* a later one completed, in a session whose backend held a model.
C24_Witness ==
    /\ args.fn = "optimize"
    /\ args.backend = "model"
    /\ ret.done
    /\ Len(ret.trials) = n_trials
    /\ ret.trials[1] = "PRUNED"
    /\ ret.trials[n_trials] = "COMPLETE"
    /\ ret.backend = "clear"


\* The worked example: 100 rows, one Dynamic input, lag_count 3, 80/20.
WorkedExample ==
    /\ args.fn = "split_tensors"
    /\ ret.done
    /\ NRows(args.df) = 100
    /\ args.input_vars = <<"P">>
    /\ args.var_types["P"] = "Dynamic"
    /\ args.num_lags = 3
    /\ args.train_split = 80

\* C25 (amended): in the worked example the training tensor has 77
\* sequences and the test tensor the remaining 20 of the 97 processed rows,
\* each of window length 1 and 6 features.
C25_TensorShapes ==
    WorkedExample
    => /\ ret.rows = 97
       /\ ret.out.X_train = <<77, 1, 6>>
       /\ ret.out.X_test = <<20, 1, 6>>

C25_Witness ==
    /\ WorkedExample
    /\ ret.feature_cols = <<"P_Lag_1", "P_Lag_2", "P_Lag_3",
                            "Q_Lag_1", "Q_Lag_2", "Q_Lag_3">>

\* C25 as stated: 77 training sequences and 17 test sequences.
C25_SeventeenTestSequences ==
    WorkedExample
    => /\ ret.out.X_train = <<77, 1, 6>>
       /\ ret.out.X_test = <<17, 1, 6>>


\* The ways a Cross-Validation or Predict run stops for want of a fitted
\* scaler, of matching columns or of rows.
InputFaults ==
    {"AttributeError_scaler_none", "ValueError_features", "ValueError_empty",
     "ValueError_too_few_rows", "no_input_variables", "insufficient_rows"}

\* C26: a Cross-Validation or Predict run that has a fitted scaler, a
\* predictor and enough rows completes without a fault: the predicted mean
\* is stacked with the feature block as one column.
C26_CvAndPredictComplete ==
    (/\ last.op \in {"CV", "Predict"}
     /\ scaler.fit
     /\ last.fault \notin InputFaults)
    => last.fault = "none"


\* C27: generate_future_predictions keeps its sequence a (1, F) array, gives
\* every inference call an input of F features, and ends without a fault
\* after exactly num_steps calls with num_steps predictions.
C27_FutureSteps ==
    args.fn = "generate_future_predictions"
    => /\ ret.current_sequence.shape = args.last_sequence.shape
       /\ \A k \in 1..Len(ret.calls) : ret.calls[k] = Len(args.last_sequence.data)
       /\ ret.done => /\ ret.raised = "none"
                      /\ Len(ret.calls) = args.num_steps
                      /\ Len(ret.future_predictions) = args.num_steps


\* C28: whenever the Results table is drawn, every metric name it looks up
\* is among the metrics the last Test stored.
C28_ResultsMetricsStored ==
    (args.fn = "results" /\ ret.results.rendered)
    => /\ ret.results.looked_up \subseteq ret.metrics.keys
       /\ ret.results.fault = "none"


\* C29: every standard deviation predict_with_uncertainty returns is
\* non-negative: the second output on the direct path, the root of a
\* non-negative variance on the Monte Carlo path.
C29_StdNonNegative ==
    (UncDone /\ ret.out.raised = "none")
    => /\ \A i \in 1..Len(ret.out.std_raw) : ret.out.std_raw[i] >= 0
       /\ \A i \in 1..Len(ret.out.std2) : ret.out.std2[i][1] >= 0


\* C30: an Optimize run in a session without training data ends at the
\* "Please train the model first" guard, with no study created and no
\* trial run.
C30_OptimizeRejectedUntrained ==
    (args.fn = "optimize" /\ ~args.X_train.set /\ ret.done)
    => /\ ret.fault = "train_first"
       /\ ~ret.study
       /\ ret.trials = <<>>

====
